---- MODULE Spec2Model ----
(***************************************************************************)
(* A model of the two example scripts of the repository:                   *)
(*   src/t0/after.py       env-file loader, derived-secret rule, one       *)
(*                         embedded inference call inside a with-block     *)
(*   src/t0/after_http.py  OPENAI_API_KEY check, one chat-completion call   *)
(*                                                                         *)
(* A Python str is a finite sequence of atoms.  An atom is one character   *)
(* ("=", "#", " ", "\n", "x", ...) or a whole word that holds no           *)
(* whitespace, no "=" and no "#" ("GEMINI_API_KEY"): the scripts never     *)
(* look inside such a word.  os.environ is a function from the names that  *)
(* are set to their values; a name outside its DOMAIN is unset.            *)
(*                                                                         *)
(* The external collaborators (TensorZeroGateway, OpenAI) are black boxes: *)
(* a constructor or a call either returns or raises, a returned response   *)
(* has the fields the scripts read, and the gateway's __exit__ releases    *)
(* the client and lets a pending exception propagate.                      *)
(***************************************************************************)
EXTENDS Integers, Sequences, FiniteSets, TLC

VARIABLES
    script,       \* which script runs: "after" or "after_http"
    pc,           \* the statement the interpreter is at
    environ,      \* os.environ
    environ0,     \* history: os.environ when the process started
    parsed,       \* history: os.environ when the derived-secret rule was reached
    fileExists,   \* env_file.exists()
    nread,        \* number of lines the for-loop has taken from the file
    line,         \* history: the line the loop just read, before strip (<<>> outside the loop)
    acquired,     \* number of embedded clients entered by the with-statement
    released,     \* number of __exit__ calls on the embedded client
    clients,      \* OpenAI clients constructed, as their keyword arguments
    calls,        \* inference / chat-completion requests issued, in order
    response,     \* the `response` variable (<<>> while unassigned)
    out,          \* what was printed, in order
    error,        \* the uncaught exception, "none" while there is none
    exit_status   \* <<>> while running, <<n>> once the process ended with n

vars == <<script, pc, environ, environ0, parsed, fileExists, nread, line,
          acquired, released, clients, calls, response, out, error, exit_status>>

----------------------------------------------------------------------------
(* Bounds of the model *)

\* the for-loop reads at most this many lines of the env file
MaxLines == 2

\* every line of at most this many atoms over Atoms is a possible file line
MaxLineLen == 2

----------------------------------------------------------------------------
(* Strings *)

GEMINI_API_KEY == <<"GEMINI_API_KEY">>
GOOGLE_AI_STUDIO_API_KEY == <<"GOOGLE_AI_STUDIO_API_KEY">>
OPENAI_API_KEY == <<"OPENAI_API_KEY">>

\* os.getenv's default result for a name that is unset; no str equals it
None == <<"<None>">>

\* the characters str.strip() removes (those that occur in the model)
Whitespace == {" ", "\n", "\t"}

\* the atoms short file lines are built from
Atoms == {"GEMINI_API_KEY", "=", "#", " "}

ShortLines == UNION {[1..n -> Atoms] : n \in 0..MaxLineLen}

\* longer lines of the kinds an env file holds
SampleLines ==
    { <<"GEMINI_API_KEY", "=", "s", "e", "c">>,
      <<" ", "GEMINI_API_KEY", " ", "=", " ", "s", " ", "c", "\t">>,
      <<"GOOGLE_AI_STUDIO_API_KEY", "=", "a", "=", "b">>,
      <<"GOOGLE_AI_STUDIO_API_KEY", "=">>,
      <<"GOOGLE_AI_STUDIO_API_KEY", " ", "=", "s", "e", "c">>,
      <<"K", "=", "#", "v">>,
      <<" ", "\t", "#", " ", "K", "=", "v">>,
      <<"e", "x", "p", "o", "r", "t", " ", "K">>,
      <<" ", "\t", " ">>,
      <<" ", "=", " ", "v">> }

FileLines == ShortLines \cup SampleLines

\* a line as iteration over the file yields it: with its newline, or, for the
\* last line of a file that does not end in one, without
LineEnds == {<<>>, <<"\n">>}

RECURSIVE lstrip(_)
lstrip(s) ==
    IF s # <<>> /\ Head(s) \in Whitespace THEN lstrip(Tail(s)) ELSE s

RECURSIVE rstrip(_)
rstrip(s) ==
    IF s # <<>> /\ s[Len(s)] \in Whitespace
    THEN rstrip(SubSeq(s, 1, Len(s) - 1))
    ELSE s

\* str.strip()
strip(s) == rstrip(lstrip(s))

\* str.startswith(c) for a one-character c
startswith(s, c) == s # <<>> /\ Head(s) = c

\* c in s
contains(s, c) == \E i \in 1..Len(s) : s[i] = c

\* s.split(c, 1): the list of parts, one part when c does not occur
split1(s, c) ==
    IF contains(s, c)
    THEN LET i == CHOOSE j \in 1..Len(s) :
                      s[j] = c /\ \A h \in 1..(j - 1) : s[h] # c
         IN  <<SubSeq(s, 1, i - 1), SubSeq(s, i + 1, Len(s))>>
    ELSE <<s>>

\* s[:n]
prefix(s, n) == SubSeq(s, 1, IF Len(s) < n THEN Len(s) ELSE n)

----------------------------------------------------------------------------
(* os.environ *)

\* os.getenv(k)
getenv(e, k) == IF k \in DOMAIN e THEN e[k] ELSE None

\* the truth value Python gives os.getenv's result: None and "" are false
truthy(v) == v # None /\ v # <<>>

\* os.environ[k] = v
setitem(e, k, v) == [x \in DOMAIN e \cup {k} |-> IF x = k THEN v ELSE e[x]]

\* setdefault written as a plain assignment: the file's value wins
setdefault_overwrite(e, k, v) == setitem(e, k, v)

\* os.environ.setdefault(k, v), for a name putenv accepts
setdefault(e, k, v) == IF k \in DOMAIN e THEN e ELSE setitem(e, k, v)

\* setenv(3) fails with EINVAL on an empty name, which os.environ raises as
\* OSError; a name that is already set is only looked up
putenv_raises(e, k) == k \notin DOMAIN e /\ k = <<>>

\* line 11 without its comment test
ShouldProcess_nocomment(l) == l # <<>> /\ contains(l, "=")

\* the condition of line 11
ShouldProcess(l) == l # <<>> /\ ~startswith(l, "#") /\ contains(l, "=")

\* the rule with its first test inverted: it fires only when the target is set
DerivedSecret_inverted(e) ==
    IF truthy(getenv(e, GOOGLE_AI_STUDIO_API_KEY)) /\ truthy(getenv(e, GEMINI_API_KEY))
    THEN setitem(e, GOOGLE_AI_STUDIO_API_KEY, getenv(e, GEMINI_API_KEY))
    ELSE e

\* the rule without its first test: it copies whenever the source is there
DerivedSecret_unguarded(e) ==
    IF truthy(getenv(e, GEMINI_API_KEY))
    THEN setitem(e, GOOGLE_AI_STUDIO_API_KEY, getenv(e, GEMINI_API_KEY))
    ELSE e

\* lines 16-17 (and 19-20): the derived-secret rule
DerivedSecret(e) ==
    IF ~truthy(getenv(e, GOOGLE_AI_STUDIO_API_KEY)) /\ truthy(getenv(e, GEMINI_API_KEY))
    THEN setitem(e, GOOGLE_AI_STUDIO_API_KEY, getenv(e, GEMINI_API_KEY))
    ELSE e

----------------------------------------------------------------------------
(* What the scripts pass to and get from the external clients *)

\* after.py lines 27-37: the arguments of client.inference
InferenceRequest ==
    [function_name |-> "generate_haiku",
     messages |-> <<[role |-> "user",
                     content |-> "Write a haiku about artificial intelligence."]>>]

\* after_http.py lines 17-20: the arguments of OpenAI(...)
ClientArgs(e) ==
    [base_url |-> "http://localhost:8181/app/v1",
     api_key |-> getenv(e, OPENAI_API_KEY)]

\* the request with the model name that has the 'gpt_' prefix
ChatRequest_gpt ==
    [model |-> "tensorzero::model_name::gpt_gemini_flash_lite",
     messages |-> <<[role |-> "user", content |-> "Write a software engineer joke"]>>]

\* after_http.py lines 28-33: the arguments of client.chat.completions.create
ChatRequest ==
    [model |-> "tensorzero::model_name::gemini_flash_lite",
     messages |-> <<[role |-> "user", content |-> "Write a software engineer joke"]>>]

\* after_http.py line 23: the length of the key prefix that is printed
KeyPrefixLen == 15

\* what the embedded gateway may answer
InferenceResponses == {"haiku-1", "haiku-2"}

\* what the HTTP gateway may answer: choices[0].message.content and
\* usage.total_tokens
ChatResponses == [content : {"joke-1", "joke-2"}, total_tokens : {17, 42}]

\* print(fmt) with the values formatted into it
Printed(fmt, args) == [fmt |-> fmt, args |-> args]

\* after_http.py lines 11-12
Hint ==
    << Printed("Set OPENAI_API_KEY environment variable", <<>>),
       Printed("   Format: sk-t0-<public_id>-<long_key>", <<>>) >>

\* after_http.py lines 22-24
Banner(e) ==
    << Printed("Calling OpenAI via TensorZero (Auth Enabled)...", <<>>),
       Printed("Using TensorZero API key: {}...",
               <<prefix(getenv(e, OPENAI_API_KEY), KeyPrefixLen)>>),
       Printed("", <<>>) >>

\* after_http.py lines 36-39
Result(r) ==
    << Printed("{content}", <<r.content>>),
       Printed("", <<>>),
       Printed("Tokens: {}", <<r.total_tokens>>),
       Printed("Auth: Enabled", <<>>) >>

----------------------------------------------------------------------------
(* Initial states *)

\* values the process environment may give a name: empty and not
EnvValues == {<<>>, <<"x">>}

\* values of OPENAI_API_KEY: empty, shorter and longer than the printed prefix
KeyValues == {<<>>, <<"s", "k">>, [i \in 1..(KeyPrefixLen + 1) |-> "k"]}

Environments(names, values) == UNION {[D -> values] : D \in SUBSET names}

Init ==
    /\ script \in {"after", "after_http"}
    /\ pc = IF script = "after" THEN "exists" ELSE "check"
    /\ environ \in IF script = "after"
                   THEN Environments({GEMINI_API_KEY, GOOGLE_AI_STUDIO_API_KEY}, EnvValues)
                   ELSE Environments({OPENAI_API_KEY}, KeyValues)
    /\ environ0 = environ
    /\ parsed = environ
    /\ fileExists \in IF script = "after" THEN BOOLEAN ELSE {FALSE}
    /\ nread = 0
    /\ line = <<>>
    /\ acquired = 0
    /\ released = 0
    /\ clients = <<>>
    /\ calls = <<>>
    /\ response = <<>>
    /\ out = <<>>
    /\ error = "none"
    /\ exit_status = <<>>

\* an exception nothing catches: the interpreter prints the trace and the
\* process ends with status 1
Uncaught(e) ==
    /\ pc' = "failed"
    /\ error' = e
    /\ exit_status' = <<1>>

----------------------------------------------------------------------------
(* after.py *)

\* the file opened without the exists() test: open() raises when it is absent
ExistsCheck_unguarded ==
    /\ script = "after" /\ pc = "exists"
    /\ IF fileExists
       THEN pc' = "lines" /\ UNCHANGED <<error, exit_status>>
       ELSE Uncaught("FileNotFoundError")
    /\ UNCHANGED <<script, environ, environ0, parsed, fileExists, nread, line,
                   acquired, released, clients, calls, response, out>>

\* line 7: if env_file.exists()
ExistsCheck ==
    /\ script = "after" /\ pc = "exists"
    /\ pc' = IF fileExists THEN "lines" ELSE "fallback1"
    /\ UNCHANGED <<script, environ, environ0, parsed, fileExists, nread, line,
                   acquired, released, clients, calls, response, out, error,
                   exit_status>>

\* lines 9-13: one iteration of the for-loop, on the next line of the file
ReadLine(content, eol) ==
    /\ script = "after" /\ pc = "lines"
    /\ nread < MaxLines
    /\ nread' = nread + 1
    /\ line' = content \o eol
    /\ LET l == strip(content \o eol)
           parts == split1(l, "=")
       IN  IF ~ShouldProcess(l)
           THEN /\ environ' = environ
                /\ UNCHANGED <<pc, error, exit_status>>
           ELSE IF Len(parts) # 2
           THEN \* key, value = [l] raises ValueError
                /\ environ' = environ
                /\ Uncaught("ValueError")
           ELSE IF putenv_raises(environ, strip(parts[1]))
           THEN /\ environ' = environ
                /\ Uncaught("OSError")
           ELSE /\ environ' = setdefault(environ, strip(parts[1]), strip(parts[2]))
                /\ UNCHANGED <<pc, error, exit_status>>
    /\ UNCHANGED <<script, environ0, parsed, fileExists, acquired, released,
                   clients, calls, response, out>>

\* line 9: the file has no further line; the with-block closes it
EndOfFile ==
    /\ script = "after" /\ pc = "lines"
    /\ pc' = "fallback1"
    /\ line' = <<>>
    /\ UNCHANGED <<script, environ, environ0, parsed, fileExists, nread,
                   acquired, released, clients, calls, response, out, error,
                   exit_status>>

\* lines 16-17
Fallback1 ==
    /\ script = "after" /\ pc = "fallback1"
    /\ parsed' = environ
    /\ environ' = DerivedSecret(environ)
    /\ pc' = "fallback2"
    /\ UNCHANGED <<script, environ0, fileExists, nread, line, acquired,
                   released, clients, calls, response, out, error, exit_status>>

\* the second block without the test that the target is unset
Fallback2_unguarded ==
    /\ script = "after" /\ pc = "fallback2"
    /\ environ' = DerivedSecret_unguarded(environ)
    /\ pc' = "build"
    /\ UNCHANGED <<script, environ0, parsed, fileExists, nread, line, acquired,
                   released, clients, calls, response, out, error, exit_status>>

\* lines 19-20
Fallback2 ==
    /\ script = "after" /\ pc = "fallback2"
    /\ environ' = DerivedSecret(environ)
    /\ pc' = "build"
    /\ UNCHANGED <<script, environ0, parsed, fileExists, nread, line, acquired,
                   released, clients, calls, response, out, error, exit_status>>

\* lines 23-26: build_embedded(...) returns and the with-statement enters it
BuildReturns ==
    /\ script = "after" /\ pc = "build"
    /\ acquired' = acquired + 1
    /\ pc' = "inference"
    /\ UNCHANGED <<script, environ, environ0, parsed, fileExists, nread, line,
                   released, clients, calls, response, out, error, exit_status>>

\* lines 23-26: build_embedded(...) raises; there is no client to release
BuildRaises ==
    /\ script = "after" /\ pc = "build"
    /\ Uncaught("build_embedded")
    /\ UNCHANGED <<script, environ, environ0, parsed, fileExists, nread, line,
                   acquired, released, clients, calls, response, out>>

\* lines 27-37: client.inference(...) returns r
InferenceReturns(r) ==
    /\ script = "after" /\ pc = "inference"
    /\ calls' = Append(calls, InferenceRequest)
    /\ response' = r
    /\ pc' = "print"
    /\ UNCHANGED <<script, environ, environ0, parsed, fileExists, nread, line,
                   acquired, released, clients, out, error, exit_status>>

\* the exception of the call caught and dropped
InferenceRaises_swallowed ==
    /\ script = "after" /\ pc = "inference"
    /\ calls' = Append(calls, InferenceRequest)
    /\ error' = "inference"
    /\ pc' = "exit"
    /\ UNCHANGED <<script, environ, environ0, parsed, fileExists, nread, line,
                   acquired, released, clients, response, out, exit_status>>

\* lines 27-37: client.inference(...) raises; the with-statement unwinds
InferenceRaises ==
    /\ script = "after" /\ pc = "inference"
    /\ calls' = Append(calls, InferenceRequest)
    /\ error' = "inference"
    /\ pc' = "unwind"
    /\ UNCHANGED <<script, environ, environ0, parsed, fileExists, nread, line,
                   acquired, released, clients, response, out, exit_status>>

\* line 38: print(response)
PrintResponse ==
    /\ script = "after" /\ pc = "print"
    /\ out' = Append(out, Printed("{response}", <<response>>))
    /\ pc' = "exit"
    /\ UNCHANGED <<script, environ, environ0, parsed, fileExists, nread, line,
                   acquired, released, clients, calls, response, error,
                   exit_status>>

\* line 23: the with-block is left normally: __exit__ releases the client,
\* the script is at its end
ExitWith ==
    /\ script = "after" /\ pc = "exit"
    /\ released' = released + 1
    /\ pc' = "done"
    /\ exit_status' = <<0>>
    /\ UNCHANGED <<script, environ, environ0, parsed, fileExists, nread, line,
                   acquired, clients, calls, response, out, error>>

\* no with-statement: an exception leaves the block without releasing
ExitWithRaising_norelease ==
    /\ script = "after" /\ pc = "unwind"
    /\ Uncaught(error)
    /\ UNCHANGED <<script, environ, environ0, parsed, fileExists, nread, line,
                   acquired, released, clients, calls, response, out>>

\* line 23: the with-block is left by the exception: __exit__ releases the
\* client and the exception goes on, uncaught
ExitWithRaising ==
    /\ script = "after" /\ pc = "unwind"
    /\ released' = released + 1
    /\ Uncaught(error)
    /\ UNCHANGED <<script, environ, environ0, parsed, fileExists, nread, line,
                   acquired, clients, calls, response, out>>

----------------------------------------------------------------------------
(* after_http.py *)

\* lines 10-13: the key is there, go on
CheckKeyPresent ==
    /\ script = "after_http" /\ pc = "check"
    /\ truthy(getenv(environ, OPENAI_API_KEY))
    /\ pc' = "construct"
    /\ UNCHANGED <<script, environ, environ0, parsed, fileExists, nread, line,
                   acquired, released, clients, calls, response, out, error,
                   exit_status>>

\* the hint printed without the exit(1) after it
CheckKeyMissing_noexit ==
    /\ script = "after_http" /\ pc = "check"
    /\ ~truthy(getenv(environ, OPENAI_API_KEY))
    /\ out' = out \o Hint
    /\ pc' = "construct"
    /\ UNCHANGED <<script, environ, environ0, parsed, fileExists, nread, line,
                   acquired, released, clients, calls, response, error,
                   exit_status>>

\* lines 10-13: no key: print the hint and exit(1)
CheckKeyMissing ==
    /\ script = "after_http" /\ pc = "check"
    /\ ~truthy(getenv(environ, OPENAI_API_KEY))
    /\ out' = out \o Hint
    /\ pc' = "exited"
    /\ exit_status' = <<1>>
    /\ UNCHANGED <<script, environ, environ0, parsed, fileExists, nread, line,
                   acquired, released, clients, calls, response, error>>

\* lines 17-20: OpenAI(...) returns
OpenAIReturns ==
    /\ script = "after_http" /\ pc = "construct"
    /\ clients' = Append(clients, ClientArgs(environ))
    /\ pc' = "banner"
    /\ UNCHANGED <<script, environ, environ0, parsed, fileExists, nread, line,
                   acquired, released, calls, response, out, error, exit_status>>

\* lines 17-20: OpenAI(...) raises
OpenAIRaises ==
    /\ script = "after_http" /\ pc = "construct"
    /\ Uncaught("OpenAI")
    /\ UNCHANGED <<script, environ, environ0, parsed, fileExists, nread, line,
                   acquired, released, clients, calls, response, out>>

\* lines 22-24
PrintBanner ==
    /\ script = "after_http" /\ pc = "banner"
    /\ out' = out \o Banner(environ)
    /\ pc' = "create"
    /\ UNCHANGED <<script, environ, environ0, parsed, fileExists, nread, line,
                   acquired, released, clients, calls, response, error,
                   exit_status>>

\* lines 28-33: client.chat.completions.create(...) returns r
CreateReturns(r) ==
    /\ script = "after_http" /\ pc = "create"
    /\ calls' = Append(calls, ChatRequest)
    /\ response' = r
    /\ pc' = "result"
    /\ UNCHANGED <<script, environ, environ0, parsed, fileExists, nread, line,
                   acquired, released, clients, out, error, exit_status>>

\* lines 28-33: client.chat.completions.create(...) raises
CreateRaises ==
    /\ script = "after_http" /\ pc = "create"
    /\ calls' = Append(calls, ChatRequest)
    /\ Uncaught("create")
    /\ UNCHANGED <<script, environ, environ0, parsed, fileExists, nread, line,
                   acquired, released, clients, response, out>>

\* lines 36-39, and the end of the script
PrintResult ==
    /\ script = "after_http" /\ pc = "result"
    /\ out' = out \o Result(response)
    /\ pc' = "done"
    /\ exit_status' = <<0>>
    /\ UNCHANGED <<script, environ, environ0, parsed, fileExists, nread, line,
                   acquired, released, clients, calls, response, error>>

----------------------------------------------------------------------------

Next ==
    \/ ExistsCheck
    \/ \E content \in FileLines, eol \in LineEnds : ReadLine(content, eol)
    \/ EndOfFile
    \/ Fallback1
    \/ Fallback2
    \/ BuildReturns
    \/ BuildRaises
    \/ \E r \in InferenceResponses : InferenceReturns(r)
    \/ InferenceRaises
    \/ PrintResponse
    \/ ExitWith
    \/ ExitWithRaising
    \/ CheckKeyPresent
    \/ CheckKeyMissing
    \/ OpenAIReturns
    \/ OpenAIRaises
    \/ PrintBanner
    \/ \E r \in ChatResponses : CreateReturns(r)
    \/ CreateRaises
    \/ PrintResult

Spec == Init /\ [][Next]_vars

----------------------------------------------------------------------------
(* Vocabulary of the properties *)

\* a loop iteration of the env-file loader: the step that reads a line
ReadsLine == script = "after" /\ pc = "lines" /\ nread' = nread + 1

\* '=' occurs in s at i and not before
FirstEq(s, i) == s[i] = "=" /\ \A h \in 1..(i - 1) : s[h] # "="

\* the raw line is blank
IsBlank(raw) == \A i \in 1..Len(raw) : raw[i] \in Whitespace

\* the first non-blank character of the raw line is '#'
IsComment(raw) ==
    \E i \in 1..Len(raw) : raw[i] = "#" /\ \A h \in 1..(i - 1) : raw[h] \in Whitespace

\* the raw line holds no '='
HasNoEq(raw) == \A i \in 1..Len(raw) : raw[i] # "="

\* the derived-secret rule has run (both blocks)
LoaderFinished ==
    /\ script = "after"
    /\ pc \notin {"exists", "lines", "fallback1", "fallback2"}
    /\ error \notin {"OSError", "ValueError", "FileNotFoundError"}

Exited == exit_status # <<>>

HasPrinted(fmt) == \E i \in 1..Len(out) : out[i].fmt = fmt

----------------------------------------------------------------------------
(* Properties *)

\* C1: set-if-absent loading.  Processing a well-formed KEY=VALUE line (not a
\* comment, KEY not empty; KEY and VALUE are the stripped parts around the
\* first '=') raises nothing and leaves environ[KEY] at the value KEY had if
\* it was set when the line was reached, and at VALUE if it was not; and a
\* name the process environment set keeps its value all through the parse.
C1_SetIfAbsent ==
    /\ [][ReadsLine =>
            \A i \in 1..Len(strip(line')) :
                LET l == strip(line')
                    KEY == strip(SubSeq(l, 1, i - 1))
                    VALUE == strip(SubSeq(l, i + 1, Len(l)))
                IN  (FirstEq(l, i) /\ ~IsComment(line') /\ KEY # <<>>) =>
                        /\ KEY \in DOMAIN environ'
                        /\ environ'[KEY] = IF KEY \in DOMAIN environ
                                           THEN environ[KEY]
                                           ELSE VALUE
                        /\ error' = "none"]_vars
    /\ [](script = "after" /\ pc \in {"lines", "fallback1"} =>
            \A k \in DOMAIN environ0 :
                k \in DOMAIN environ /\ environ[k] = environ0[k])

\* C1 witness: the file set GOOGLE_AI_STUDIO_API_KEY, which was unset, and then
\* assigned GEMINI_API_KEY, which the process environment had set to another
\* value
C1_Witness ==
    /\ pc = "lines" /\ nread = 2
    /\ line = <<"GEMINI_API_KEY", "=", "s", "e", "c", "\n">>
    /\ GEMINI_API_KEY \in DOMAIN environ0
    /\ environ[GEMINI_API_KEY] = <<"x">>
    /\ GOOGLE_AI_STUDIO_API_KEY \notin DOMAIN environ0
    /\ GOOGLE_AI_STUDIO_API_KEY \in DOMAIN environ

\* C5: a blank line, a line whose first non-blank character is '#' and a line
\* without '=' leave the environment exactly as it was and raise nothing,
\* whatever the environment and the lines around them.
C5_SkippedLines ==
    [][(ReadsLine /\ (IsBlank(line') \/ IsComment(line') \/ HasNoEq(line'))) =>
            /\ environ' = environ
            /\ pc' = "lines"
            /\ error' = "none"
            /\ exit_status' = <<>>]_vars

\* C5 witness: a comment line that holds a KEY=VALUE text was read after a line
\* that did set a name
C5_Witness ==
    /\ pc = "lines" /\ nread = 2
    /\ line = <<" ", "\t", "#", " ", "K", "=", "v", "\n">>
    /\ environ # environ0
    /\ <<"K">> \notin DOMAIN environ

\* C7: when the env file does not exist the file step raises nothing, reads no
\* line and leaves the environment as it was, and the script goes on to the
\* derived-secret rule.
C7_AbsentFile ==
    /\ [][(script = "after" /\ pc = "exists" /\ ~fileExists) =>
            /\ pc' = "fallback1"
            /\ environ' = environ
            /\ error' = "none"
            /\ exit_status' = <<>>]_vars
    /\ [](script = "after" /\ ~fileExists =>
            /\ nread = 0
            /\ pc # "lines"
            /\ (pc \notin {"exists", "fallback1"} => parsed = environ0))

\* C7 witness: without an env file the script has issued its inference call
C7_Witness ==
    /\ script = "after" /\ ~fileExists
    /\ pc = "print" /\ Len(calls) = 1

\* C10: the second, duplicated block of the derived-secret rule never changes
\* the environment: applying the rule twice is applying it once.
C10_SecondBlockIdle ==
    [][(script = "after" /\ pc = "fallback2") => environ' = environ]_vars

\* C10 witness: the first block did copy the secret, and the second has run
C10_Witness ==
    /\ script = "after" /\ pc = "build"
    /\ environ # parsed

\* C3: in a run of the embedded script that acquired the client, exactly one
\* inference call is issued, for function 'generate_haiku' with exactly one
\* message, of role 'user', and the client is released exactly once, after
\* that call, whether the call returned or raised.
C3_OneCallOneRelease ==
    script = "after" =>
        /\ Len(calls) <= 1
        /\ released <= acquired
        /\ (released >= 1 => Len(calls) = 1)
        /\ ((acquired >= 1 /\ Exited) =>
                /\ Len(calls) = 1
                /\ calls[1].function_name = "generate_haiku"
                /\ Len(calls[1].messages) = 1
                /\ calls[1].messages[1].role = "user"
                /\ released = 1)

\* C3 witness: the call raised, and the run ended with the client released
C3_Witness ==
    /\ script = "after" /\ pc = "failed"
    /\ error = "inference"
    /\ acquired = 1 /\ released = 1

\* C2: with OPENAI_API_KEY unset the HTTP script's first step prints the hint
\* with the key format and ends the process with status 1; no client is ever
\* constructed and no request is ever issued.
C2_MissingKeyExits ==
    (script = "after_http" /\ OPENAI_API_KEY \notin DOMAIN environ0) =>
        /\ clients = <<>>
        /\ calls = <<>>
        /\ pc \in {"check", "exited"}
        /\ (pc = "exited" =>
                /\ exit_status = <<1>>
                /\ HasPrinted("   Format: sk-t0-<public_id>-<long_key>"))

\* C2 witness: the HTTP script has ended on the missing key
C2_Witness ==
    /\ script = "after_http" /\ OPENAI_API_KEY \notin DOMAIN environ0
    /\ pc = "exited" /\ exit_status = <<1>>

\* what C6 says of a run of the HTTP script that does not take the exit-1 path
HttpRunAsClaimed ==
    /\ pc # "exited"
    /\ Len(calls) <= 1
    /\ (pc \notin {"check", "construct"} =>
            clients = <<[base_url |-> "http://localhost:8181/app/v1",
                         api_key |-> environ[OPENAI_API_KEY]]>>)
    /\ (Exited => Len(calls) = 1)
    /\ \A i \in 1..Len(calls) :
            /\ calls[i].model = "tensorzero::model_name::gemini_flash_lite"
            /\ Len(calls[i].messages) = 1
            /\ calls[i].messages[1].role = "user"
    /\ ((Len(calls) = 1 /\ error = "none" /\ Exited) =>
            /\ exit_status = <<0>>
            /\ \E i, j \in 1..Len(out) :
                    /\ i < j
                    /\ out[i].fmt = "{content}"
                    /\ out[i].args = <<response.content>>
                    /\ out[j].fmt = "Tokens: {}"
                    /\ out[j].args = <<response.total_tokens>>)

\* C6 as stated: whenever OPENAI_API_KEY is set the HTTP script does not take
\* the exit-1 path, constructs the client with the fixed base URL and the key,
\* issues exactly one request with the fixed model and one user message and,
\* when the request succeeds, prints the content, then the token count, and
\* ends with status 0.
C6_WheneverSet ==
    (script = "after_http" /\ OPENAI_API_KEY \in DOMAIN environ0) => HttpRunAsClaimed

\* C6 amended: the same of every run in which OPENAI_API_KEY is set to a
\* non-empty value and the construction of the client does not raise.
C6_WheneverNonEmpty ==
    (/\ script = "after_http"
     /\ truthy(getenv(environ0, OPENAI_API_KEY))
     /\ error # "OpenAI") => HttpRunAsClaimed

\* C6 witness: a run with a key ended with status 0 after its one request
C6_Witness ==
    /\ script = "after_http" /\ pc = "done"
    /\ truthy(getenv(environ0, OPENAI_API_KEY))
    /\ Len(calls) = 1 /\ Len(out) = 7

\* C8: failures are neither retried nor swallowed.  In both scripts at most one
\* call is issued; once a construction or the call has raised, no response is
\* printed and the process ends with a non-zero status; status 0 is reached
\* only after a call that returned and whose response was printed.
C8_FailuresPropagate ==
    /\ Len(calls) <= 1
    /\ (error # "none" =>
            /\ ~HasPrinted("{response}")
            /\ ~HasPrinted("{content}")
            /\ pc \in {"unwind", "failed"}
            /\ (Exited => exit_status = <<1>>))
    /\ (exit_status = <<0>> =>
            /\ error = "none"
            /\ Len(calls) = 1
            /\ (HasPrinted("{response}") \/ HasPrinted("{content}")))

\* C8 witness: the one inference call raised and the embedded script has ended
\* with status 1
C8_Witness ==
    /\ script = "after" /\ error = "inference"
    /\ Len(calls) = 1
    /\ exit_status = <<1>>

\* C4 as stated: for every value X, if GEMINI_API_KEY is X and
\* GOOGLE_AI_STUDIO_API_KEY is unset when the file has been parsed, then when
\* the loader has finished GOOGLE_AI_STUDIO_API_KEY is X and GEMINI_API_KEY is
\* still X.
C4_EveryValue ==
    (/\ LoaderFinished
     /\ GEMINI_API_KEY \in DOMAIN parsed
     /\ GOOGLE_AI_STUDIO_API_KEY \notin DOMAIN parsed) =>
        /\ GOOGLE_AI_STUDIO_API_KEY \in DOMAIN environ
        /\ environ[GOOGLE_AI_STUDIO_API_KEY] = parsed[GEMINI_API_KEY]
        /\ environ[GEMINI_API_KEY] = parsed[GEMINI_API_KEY]

\* C4 amended: the same for every non-empty value X.
C4_EveryNonEmptyValue ==
    (/\ LoaderFinished
     /\ GEMINI_API_KEY \in DOMAIN parsed
     /\ parsed[GEMINI_API_KEY] # <<>>
     /\ GOOGLE_AI_STUDIO_API_KEY \notin DOMAIN parsed) =>
        /\ GOOGLE_AI_STUDIO_API_KEY \in DOMAIN environ
        /\ environ[GOOGLE_AI_STUDIO_API_KEY] = parsed[GEMINI_API_KEY]
        /\ environ[GEMINI_API_KEY] = parsed[GEMINI_API_KEY]

\* C4 witness: the file, not the process environment, set GEMINI_API_KEY, and
\* the loader has copied it
C4_Witness ==
    /\ LoaderFinished /\ pc = "build"
    /\ GEMINI_API_KEY \notin DOMAIN environ0
    /\ GOOGLE_AI_STUDIO_API_KEY \notin DOMAIN parsed
    /\ getenv(parsed, GEMINI_API_KEY) = <<"s", "e", "c">>
    /\ getenv(environ, GOOGLE_AI_STUDIO_API_KEY) = <<"s", "e", "c">>

\* the rule has been applied at least once
RuleApplied ==
    /\ script = "after"
    /\ pc \notin {"exists", "lines", "fallback1"}
    /\ error \notin {"OSError", "ValueError", "FileNotFoundError"}

\* C9 as stated: when GOOGLE_AI_STUDIO_API_KEY is already set, to any value,
\* the rule leaves it and every other name unchanged.
C9_AnySetValueKept ==
    (RuleApplied /\ GOOGLE_AI_STUDIO_API_KEY \in DOMAIN parsed) => environ = parsed

\* C9 amended: when GOOGLE_AI_STUDIO_API_KEY is already set to a non-empty
\* value, the rule leaves it and every other name unchanged.
C9_NonEmptyValueKept ==
    (/\ RuleApplied
     /\ GOOGLE_AI_STUDIO_API_KEY \in DOMAIN parsed
     /\ parsed[GOOGLE_AI_STUDIO_API_KEY] # <<>>) => environ = parsed

\* C9 witness: the file set GOOGLE_AI_STUDIO_API_KEY, GEMINI_API_KEY holds
\* another non-empty value, and both blocks of the rule have run
C9_Witness ==
    /\ RuleApplied /\ pc = "build"
    /\ GOOGLE_AI_STUDIO_API_KEY \notin DOMAIN environ0
    /\ GOOGLE_AI_STUDIO_API_KEY \in DOMAIN parsed
    /\ parsed[GOOGLE_AI_STUDIO_API_KEY] # <<>>
    /\ truthy(getenv(parsed, GEMINI_API_KEY))
    /\ parsed[GEMINI_API_KEY] # parsed[GOOGLE_AI_STUDIO_API_KEY]

====
